---------------------------- MODULE Spec2Model ----------------------------
(* DreamScaler USB controller (ds_usb_controller.ino): the serial protocol  *)
(* engine, its pixel store and the transport it reads from, as a state      *)
(* machine. One engine step is either the dispatch of a command byte by     *)
(* loop(), the completion of a handler whose payload is available, one      *)
(* pixel of a bulk transfer, or a timeout of the byte wait.                 *)
EXTENDS Integers, Sequences, FiniteSets, TLC

(* ---------------- configuration (ds_usb_controller.ino 15-18) ---------- *)
DEFAULT_LED_COUNT == 107
DEFAULT_LED_PIN == 6
PROTOCOL_VERSION == 11
MAX_LED_COUNT == 1000
PIN_LIMIT == 20

(* ---------------- command, response and error codes -------------------- *)
CMD_PING == 1
CMD_GET_INFO == 2
CMD_RESET == 3
CMD_SET_LED_COUNT == 16
CMD_SET_LED_PIN == 17
CMD_INIT_STRIP == 18
CMD_SET_PIXEL_RGBW == 32
CMD_SET_PIXEL_RGB == 33
CMD_SET_PIXEL_W == 34
CMD_SET_RANGE_RGBW == 48
CMD_SET_ALL_RGBW == 49
CMD_CLEAR_ALL == 50
CMD_BUFFER_START == 64
CMD_BUFFER_PIXEL == 65
CMD_BUFFER_END == 66
CMD_STREAM_START == 80
CMD_STREAM_DATA == 81
CMD_STREAM_END == 82
CMD_BULK_UPDATE == 85
CMD_SYNC == 96
CMD_FILL_GRADIENT == 112
CMD_BRIGHTNESS == 113
RESP_OK == 240
RESP_PONG == 241
RESP_INFO == 242
RESP_ERROR == 254
RESP_UNKNOWN_CMD == 255
ERR_BUFFER_OVERFLOW == 1
ERR_INVALID_PARAM == 2
ERR_NOT_INITIALIZED == 3
ERR_OUT_OF_RANGE == 4
ERR_TIMEOUT == 5

(* ---------------- bounds of the model ---------------------------------- *)
(* chunks the client may put on the wire in one run of Spec / SpecSeq      *)
MaxCmds == 3
MaxSeqCmds == 5
MaxNumCmds == 3
MaxLiveCmds == 2
MaxBulkCmds == 4

VARIABLES
  ledStrip,          \* the SK6812 object: [count, pin, pixels]
  hw,                \* what the physical strip shows: the pixels of the last sync()
  ledCount, ledPin, stripInitialized, globalBrightness,
  cmdBufferPos,
  streamMode, streamIndex, streamCount,
  pc,                \* "idle" (loop), "wait" (in waitForBytes), "bulk" (pixel loop of cmdBulkUpdate)
  cmd,               \* the command byte being processed (the last one, when idle)
  bulkI, bulkCount,  \* locals i and count of cmdBulkUpdate
  expired,           \* millis() - startTime > timeout, for the wait in progress
  rx,                \* Serial receive buffer: bytes arrived and not yet read
  tx,                \* bytes written to Serial since the last command byte was read
  syncs,             \* sync() calls since the last command byte was read
  wr,                \* indices passed to set_rgbw since the last command byte was read
  sent,              \* chunks the client has put on the wire
  session            \* history of the stream session: stream_data handled since
                     \* stream_start, and whether anything else came in between

cfgVars == <<ledCount, ledPin, stripInitialized, globalBrightness, cmdBufferPos>>
streamVars == <<streamMode, streamIndex, streamCount>>
storeVars == <<ledStrip, hw, syncs, wr>>
bulkVars == <<bulkI, bulkCount>>
vars == <<ledStrip, hw, ledCount, ledPin, stripInitialized, globalBrightness,
          cmdBufferPos, streamMode, streamIndex, streamCount, pc, cmd, bulkI,
          bulkCount, expired, rx, tx, syncs, wr, sent, session>>

(* ---------------- colours and integer helpers -------------------------- *)
OFF == <<0, 0, 0, 0>>

\* (hi << 8) | lo of two bytes
U16(hi, lo) == hi * 256 + lo

\* C integer division: truncates toward zero
CDiv(a, b) == IF a >= 0 THEN a \div b ELSE -((-a) \div b)

\* Arduino map(x, in_min, in_max, out_min, out_max)
map(x, in_min, in_max, out_min, out_max) ==
  CDiv((x - in_min) * (out_max - out_min), in_max - in_min) + out_min

\* a value held in an int of the Uno/Nano/Mega targets: 16 bits, two's complement
Int16(n) == LET m == n % 65536 IN IF m >= 32768 THEN m - 65536 ELSE m

\* one channel under brightness b: (v * b) >> 8 computed in int and stored
\* in a uint8_t
Scale(v, b) == IF b < 255 THEN (Int16(v * b) \div 256) % 256 ELSE v

\* Faulty variant, used to test the property below: the colour is scaled twice
applyBrightnessBug(color) ==
  <<Scale(Scale(color[1], globalBrightness), globalBrightness),
    Scale(Scale(color[2], globalBrightness), globalBrightness),
    Scale(Scale(color[3], globalBrightness), globalBrightness),
    Scale(Scale(color[4], globalBrightness), globalBrightness)>>

applyBrightness(color) ==
  <<Scale(color[1], globalBrightness), Scale(color[2], globalBrightness),
    Scale(color[3], globalBrightness), Scale(color[4], globalBrightness)>>

(* ---------------- the pixel store (SK6812 library object) -------------- *)
NewStrip(count, pin) ==
  [count |-> count, pin |-> pin, pixels |-> [i \in 0..(count - 1) |-> OFF]]

\* set_rgbw(index, colour): a write below the allocated count overwrites the
\* pixel; a write at or above it is refused and changes nothing
set_rgbw(strip, index, color) ==
  IF index < strip.count
  THEN [strip EXCEPT !.pixels[index] = color]
  ELSE strip

\* for (i = lo; i <= hi; i++) set_rgbw(i, f[i]): every index of the run that
\* is below the allocated count is overwritten, the others are refused
SetRun(strip, lo, hi, f) ==
  [strip EXCEPT !.pixels =
     [i \in 0..(strip.count - 1) |->
        IF lo <= i /\ i <= hi THEN set_rgbw(strip, i, f[i]).pixels[i] ELSE @[i]]]

\* sync(): the whole buffer goes to the hardware
Shown(strip) == strip.pixels

(* ---------------- state after setup() ---------------------------------- *)
Init ==
  /\ ledStrip = NewStrip(DEFAULT_LED_COUNT, DEFAULT_LED_PIN)
  /\ hw = Shown(NewStrip(DEFAULT_LED_COUNT, DEFAULT_LED_PIN))
  /\ ledCount = DEFAULT_LED_COUNT
  /\ ledPin = DEFAULT_LED_PIN
  /\ stripInitialized = TRUE
  /\ globalBrightness = 255
  /\ cmdBufferPos = 0
  /\ streamMode = FALSE
  /\ streamIndex = 0
  /\ streamCount = 0
  /\ pc = "idle"
  /\ cmd = 0
  /\ bulkI = 0
  /\ bulkCount = 0
  /\ expired = FALSE
  /\ rx = <<>>
  /\ tx = <<>>
  /\ syncs = 0
  /\ wr = {}
  /\ sent = 0
  /\ session = [data |-> 0, foreign |-> FALSE]

(* ---------------- shared pieces of the handlers ------------------------ *)
\* bytes a handler asks waitForBytes for
PayloadSize(c) ==
  CASE c = CMD_SET_LED_COUNT -> 2
    [] c = CMD_SET_LED_PIN -> 1
    [] c = CMD_SET_PIXEL_RGBW -> 6
    [] c = CMD_SET_PIXEL_RGB -> 5
    [] c = CMD_SET_PIXEL_W -> 3
    [] c = CMD_SET_RANGE_RGBW -> 8
    [] c = CMD_SET_ALL_RGBW -> 4
    [] c = CMD_BUFFER_PIXEL -> 6
    [] c = CMD_STREAM_START -> 2
    [] c = CMD_STREAM_DATA -> 4
    [] c = CMD_BULK_UPDATE -> 2
    [] c = CMD_FILL_GRADIENT -> 12
    [] c = CMD_BRIGHTNESS -> 1
    [] OTHER -> 0

\* bytes the engine is waiting for at its present position
Need == IF pc = "idle" THEN 1 ELSE IF pc = "bulk" THEN 4 ELSE PayloadSize(cmd)

\* Serial.read() n times: what is left in the receive buffer
Drop(n) == SubSeq(rx, n + 1, Len(rx))

\* tx, syncs and wr count from the read of the command byte
TxBase == IF pc = "idle" THEN <<>> ELSE tx
SyncBase == IF pc = "idle" THEN 0 ELSE syncs
WrBase == IF pc = "idle" THEN {} ELSE wr

sendResponse(response) == tx' = TxBase \o <<response>>

sendError(errorCode) == tx' = TxBase \o <<RESP_ERROR, errorCode>>

sendInfo ==
  tx' = TxBase \o <<RESP_INFO, PROTOCOL_VERSION, (ledCount \div 256) % 256,
                    ledCount % 256, ledPin,
                    IF stripInitialized THEN 1 ELSE 0, globalBrightness>>

\* the handler returns to loop()
Return == pc' = "idle" /\ expired' = FALSE

\* the store is left alone
NoStore ==
  /\ ledStrip' = ledStrip
  /\ hw' = hw
  /\ syncs' = SyncBase
  /\ wr' = WrBase

\* the store becomes strip after set_rgbw calls at indices; doSync: ledStrip->sync()
Store(strip, indices, doSync) ==
  /\ ledStrip' = strip
  /\ wr' = WrBase \cup indices
  /\ hw' = IF doSync THEN Shown(strip) ELSE hw
  /\ syncs' = IF doSync THEN SyncBase + 1 ELSE SyncBase

\* Faulty variant, used to test the property below: the index is not checked against ledCount
PixelWriteBug(index, color, doSync) ==
  /\ Store(set_rgbw(ledStrip, index, color), {index}, doSync)
  /\ sendResponse(RESP_OK)

\* if (index < ledCount) { set_rgbw; [sync;] OK } else OUT_OF_RANGE
PixelWrite(index, color, doSync) ==
  IF index < ledCount
  THEN /\ Store(set_rgbw(ledStrip, index, color), {index}, doSync)
       /\ sendResponse(RESP_OK)
  ELSE /\ NoStore
       /\ sendError(ERR_OUT_OF_RANGE)

(* ---------------- initializeStrip and the zero-payload commands -------- *)
initializeStrip(count, pin) ==
  /\ ledCount' = count
  /\ ledPin' = pin
  /\ Store(SetRun(NewStrip(count, pin), 0, count - 1, [i \in 0..(count - 1) |-> OFF]),
           0..(count - 1), TRUE)
  /\ stripInitialized' = TRUE

cmdPing ==
  /\ sendResponse(RESP_PONG)
  /\ NoStore /\ Return
  /\ UNCHANGED <<cfgVars, streamVars, bulkVars>>

cmdGetInfo ==
  /\ sendInfo
  /\ NoStore /\ Return
  /\ UNCHANGED <<cfgVars, streamVars, bulkVars>>

\* Faulty variant, used to test the property below: reset forgets the brightness
cmdResetBug ==
  /\ initializeStrip(DEFAULT_LED_COUNT, DEFAULT_LED_PIN)
  /\ globalBrightness' = globalBrightness
  /\ sendResponse(RESP_OK)
  /\ Return
  /\ UNCHANGED <<cmdBufferPos, streamVars, bulkVars>>

cmdReset ==
  /\ initializeStrip(DEFAULT_LED_COUNT, DEFAULT_LED_PIN)
  /\ globalBrightness' = 255
  /\ sendResponse(RESP_OK)
  /\ Return
  /\ UNCHANGED <<cmdBufferPos, streamVars, bulkVars>>

\* Faulty variant, used to test the property below: init_strip closes the stream session
cmdInitStripBug ==
  /\ initializeStrip(ledCount, ledPin)
  /\ sendResponse(RESP_OK)
  /\ Return
  /\ streamMode' = FALSE /\ streamIndex' = 0 /\ streamCount' = 0
  /\ UNCHANGED <<globalBrightness, cmdBufferPos, bulkVars>>

cmdInitStrip ==
  /\ initializeStrip(ledCount, ledPin)
  /\ sendResponse(RESP_OK)
  /\ Return
  /\ UNCHANGED <<globalBrightness, cmdBufferPos, streamVars, bulkVars>>

\* sendError(ERR_NOT_INITIALIZED); return;
NotInitialized ==
  /\ sendError(ERR_NOT_INITIALIZED)
  /\ NoStore /\ Return
  /\ UNCHANGED <<cfgVars, streamVars, bulkVars>>

cmdClearAll ==
  IF ~stripInitialized THEN NotInitialized
  ELSE /\ Store(SetRun(ledStrip, 0, ledCount - 1, [i \in 0..(ledCount - 1) |-> OFF]),
                0..(ledCount - 1), TRUE)
       /\ sendResponse(RESP_OK)
       /\ Return
       /\ UNCHANGED <<cfgVars, streamVars, bulkVars>>

cmdBufferStart ==
  /\ cmdBufferPos' = 0
  /\ sendResponse(RESP_OK)
  /\ NoStore /\ Return
  /\ UNCHANGED <<ledCount, ledPin, stripInitialized, globalBrightness, streamVars, bulkVars>>

cmdBufferEnd ==
  IF ~stripInitialized THEN NotInitialized
  ELSE /\ Store(ledStrip, {}, TRUE)
       /\ cmdBufferPos' = 0
       /\ sendResponse(RESP_OK)
       /\ Return
       /\ UNCHANGED <<ledCount, ledPin, stripInitialized, globalBrightness, streamVars, bulkVars>>

cmdStreamEnd ==
  IF ~stripInitialized THEN NotInitialized
  ELSE /\ Store(ledStrip, {}, TRUE)
       /\ streamMode' = FALSE
       /\ streamIndex' = 0
       /\ streamCount' = 0
       /\ sendResponse(RESP_OK)
       /\ Return
       /\ UNCHANGED <<cfgVars, bulkVars>>

cmdSync ==
  IF stripInitialized
  THEN /\ Store(ledStrip, {}, TRUE)
       /\ sendResponse(RESP_OK)
       /\ Return
       /\ UNCHANGED <<cfgVars, streamVars, bulkVars>>
  ELSE NotInitialized

\* Faulty variant, used to test the property below: an unknown byte is answered with an error frame
cmdUnknownBug ==
  /\ sendError(ERR_INVALID_PARAM)
  /\ NoStore /\ Return
  /\ UNCHANGED <<cfgVars, streamVars, bulkVars>>

cmdUnknown ==
  /\ sendResponse(RESP_UNKNOWN_CMD)
  /\ NoStore /\ Return
  /\ UNCHANGED <<cfgVars, streamVars, bulkVars>>

\* entry of waitForBytes(count, 1000): startTime = millis()
waitForBytes ==
  /\ pc' = "wait"
  /\ expired' = FALSE
  /\ tx' = TxBase
  /\ NoStore
  /\ UNCHANGED <<cfgVars, streamVars, bulkVars>>

\* the handlers that test stripInitialized before they wait
InitThenWait == IF ~stripInitialized THEN NotInitialized ELSE waitForBytes

\* Faulty variant, used to test the property below: streamMode is not tested
StreamDataEntryBug == InitThenWait

\* cmdStreamData up to its wait
StreamDataEntry ==
  IF ~stripInitialized \/ ~streamMode THEN NotInitialized ELSE waitForBytes


(* ---------------- handlers, from the return of waitForBytes ------------ *)
\* Faulty variant, used to test the property below: the count 0 is accepted
cmdSetLedCountBug ==
  LET count == U16(rx[1], rx[2])
  IN /\ rx' = Drop(2)
     /\ IF count <= MAX_LED_COUNT
        THEN ledCount' = count /\ sendResponse(RESP_OK)
        ELSE ledCount' = ledCount /\ sendError(ERR_INVALID_PARAM)
     /\ NoStore /\ Return
     /\ UNCHANGED <<ledPin, stripInitialized, globalBrightness, cmdBufferPos,
                    streamVars, bulkVars>>

cmdSetLedCount ==
  LET count == U16(rx[1], rx[2])
  IN /\ rx' = Drop(2)
     /\ IF count > 0 /\ count <= MAX_LED_COUNT
        THEN ledCount' = count /\ sendResponse(RESP_OK)
        ELSE ledCount' = ledCount /\ sendError(ERR_INVALID_PARAM)
     /\ NoStore /\ Return
     /\ UNCHANGED <<ledPin, stripInitialized, globalBrightness, cmdBufferPos,
                    streamVars, bulkVars>>

cmdSetLedPin ==
  LET pin == rx[1]
  IN /\ rx' = Drop(1)
     /\ IF pin < PIN_LIMIT
        THEN ledPin' = pin /\ sendResponse(RESP_OK)
        ELSE ledPin' = ledPin /\ sendError(ERR_INVALID_PARAM)
     /\ NoStore /\ Return
     /\ UNCHANGED <<ledCount, stripInitialized, globalBrightness, cmdBufferPos,
                    streamVars, bulkVars>>

cmdSetPixelRGBW ==
  LET index == U16(rx[1], rx[2])
      color == applyBrightness(<<rx[3], rx[4], rx[5], rx[6]>>)
  IN /\ rx' = Drop(6)
     /\ PixelWrite(index, color, TRUE)
     /\ Return
     /\ UNCHANGED <<cfgVars, streamVars, bulkVars>>

cmdSetPixelRGB ==
  LET index == U16(rx[1], rx[2])
      color == applyBrightness(<<rx[3], rx[4], rx[5], 0>>)
  IN /\ rx' = Drop(5)
     /\ PixelWrite(index, color, TRUE)
     /\ Return
     /\ UNCHANGED <<cfgVars, streamVars, bulkVars>>

cmdSetPixelW ==
  LET index == U16(rx[1], rx[2])
      color == applyBrightness(<<0, 0, 0, rx[3]>>)
  IN /\ rx' = Drop(3)
     /\ PixelWrite(index, color, TRUE)
     /\ Return
     /\ UNCHANGED <<cfgVars, streamVars, bulkVars>>

\* if (start < ledCount && end < ledCount && start <= end)
RangeOk(start, end) == start < ledCount /\ end < ledCount /\ start <= end

cmdSetRangeRGBW ==
  LET start == U16(rx[1], rx[2])
      end == U16(rx[3], rx[4])
      color == applyBrightness(<<rx[5], rx[6], rx[7], rx[8]>>)
  IN /\ rx' = Drop(8)
     /\ IF RangeOk(start, end)
        THEN /\ Store(SetRun(ledStrip, start, end, [i \in start..end |-> color]),
                      start..end, TRUE)
             /\ sendResponse(RESP_OK)
        ELSE /\ NoStore
             /\ sendError(ERR_OUT_OF_RANGE)
     /\ Return
     /\ UNCHANGED <<cfgVars, streamVars, bulkVars>>

cmdSetAllRGBW ==
  LET color == applyBrightness(<<rx[1], rx[2], rx[3], rx[4]>>)
  IN /\ rx' = Drop(4)
     /\ Store(SetRun(ledStrip, 0, ledCount - 1, [i \in 0..(ledCount - 1) |-> color]),
              0..(ledCount - 1), TRUE)
     /\ sendResponse(RESP_OK)
     /\ Return
     /\ UNCHANGED <<cfgVars, streamVars, bulkVars>>

cmdBufferPixel ==
  LET index == U16(rx[1], rx[2])
      color == applyBrightness(<<rx[3], rx[4], rx[5], rx[6]>>)
  IN /\ rx' = Drop(6)
     /\ PixelWrite(index, color, FALSE)
     /\ Return
     /\ UNCHANGED <<cfgVars, streamVars, bulkVars>>

cmdStreamStart ==
  /\ rx' = Drop(2)
  /\ streamCount' = U16(rx[1], rx[2])
  /\ streamIndex' = 0
  /\ streamMode' = TRUE
  /\ sendResponse(RESP_OK)
  /\ NoStore /\ Return
  /\ UNCHANGED <<cfgVars, bulkVars>>

\* Faulty variant, used to test the property below: the cursor is not held below the expected count
StreamRoomBug == streamIndex < ledCount

\* if (streamIndex < ledCount && streamIndex < streamCount)
StreamRoom == streamIndex < ledCount /\ streamIndex < streamCount

cmdStreamData ==
  LET color == applyBrightness(<<rx[1], rx[2], rx[3], rx[4]>>)
  IN /\ rx' = Drop(4)
     /\ IF StreamRoom
        THEN /\ Store(set_rgbw(ledStrip, streamIndex, color), {streamIndex}, FALSE)
             /\ streamIndex' = streamIndex + 1
             /\ sendResponse(RESP_OK)
        ELSE /\ NoStore
             /\ streamIndex' = streamIndex
             /\ sendError(ERR_OUT_OF_RANGE)
     /\ Return
     /\ UNCHANGED <<cfgVars, streamMode, streamCount, bulkVars>>

\* the Arduino map of one channel, stored in a uint8_t
Blend(i, steps, a, b) == map(i, 0, steps, a, b) % 256

\* the colour cmdFillGradient composes for step i of steps
GradientColor(i, steps, color1, color2) ==
  applyBrightness(
    IF steps > 0
    THEN <<Blend(i, steps, color1[1], color2[1]), Blend(i, steps, color1[2], color2[2]),
           Blend(i, steps, color1[3], color2[3]), Blend(i, steps, color1[4], color2[4])>>
    ELSE color1)

cmdFillGradient ==
  LET start == U16(rx[1], rx[2])
      end == U16(rx[3], rx[4])
      color1 == <<rx[5], rx[6], rx[7], rx[8]>>
      color2 == <<rx[9], rx[10], rx[11], rx[12]>>
  IN /\ rx' = Drop(12)
     /\ IF RangeOk(start, end)
        THEN /\ Store(SetRun(ledStrip, start, end,
                             [i \in start..end |->
                                GradientColor(i - start, end - start, color1, color2)]),
                      start..end, TRUE)
             /\ sendResponse(RESP_OK)
        ELSE /\ NoStore
             /\ sendError(ERR_OUT_OF_RANGE)
     /\ Return
     /\ UNCHANGED <<cfgVars, streamVars, bulkVars>>

\* Faulty variant, used to test the property below: the pixels already stored are rescaled
cmdSetBrightnessBug ==
  /\ rx' = Drop(1)
  /\ globalBrightness' = rx[1]
  /\ sendResponse(RESP_OK)
  /\ Store([ledStrip EXCEPT !.pixels =
              [i \in DOMAIN ledStrip.pixels |->
                 [k \in 1..4 |-> Scale(ledStrip.pixels[i][k], rx[1])]]], {}, FALSE)
  /\ Return
  /\ UNCHANGED <<ledCount, ledPin, stripInitialized, cmdBufferPos, streamVars, bulkVars>>

cmdSetBrightness ==
  /\ rx' = Drop(1)
  /\ globalBrightness' = rx[1]
  /\ sendResponse(RESP_OK)
  /\ NoStore /\ Return
  /\ UNCHANGED <<ledCount, ledPin, stripInitialized, cmdBufferPos, streamVars, bulkVars>>

\* if (count > ledCount) { sendError(ERR_OUT_OF_RANGE); return; }
BulkTooMany(count) == count > ledCount

\* cmdBulkUpdate from the return of waitForBytes(2) to its first pixel wait
cmdBulkUpdate ==
  LET count == U16(rx[1], rx[2])
  IN /\ rx' = Drop(2)
     /\ IF BulkTooMany(count)
        THEN /\ sendError(ERR_OUT_OF_RANGE)
             /\ NoStore /\ Return
             /\ UNCHANGED bulkVars
        ELSE IF count = 0
        THEN /\ tx' = TxBase \o <<RESP_OK, RESP_OK>>
             /\ Store(ledStrip, {}, TRUE)
             /\ Return
             /\ UNCHANGED bulkVars
        ELSE /\ sendResponse(RESP_OK)
             /\ NoStore
             /\ pc' = "bulk"
             /\ expired' = FALSE
             /\ bulkI' = 0
             /\ bulkCount' = count
     /\ UNCHANGED <<cfgVars, streamVars>>

\* one turn of the pixel loop of cmdBulkUpdate, its 4 bytes being there
BulkPixel ==
  /\ pc = "bulk"
  /\ Len(rx) >= 4
  /\ LET color == applyBrightness(<<rx[1], rx[2], rx[3], rx[4]>>)
         last == bulkI + 1 >= bulkCount
     IN /\ rx' = Drop(4)
        /\ Store(set_rgbw(ledStrip, bulkI, color), {bulkI}, last)
        /\ IF last
           THEN /\ sendResponse(RESP_OK)
                /\ Return
           ELSE /\ tx' = tx
                /\ pc' = "bulk"
                /\ expired' = FALSE
        /\ bulkI' = bulkI + 1
  /\ UNCHANGED <<cfgVars, streamVars, bulkCount, cmd, sent, session>>


(* ---------------- loop(), processCommand and the waits ----------------- *)
\* the switch of processCommand, each handler up to its first wait
processCommand(c) ==
  CASE c = CMD_PING -> cmdPing
    [] c = CMD_GET_INFO -> cmdGetInfo
    [] c = CMD_RESET -> cmdReset
    [] c = CMD_SET_LED_COUNT -> waitForBytes
    [] c = CMD_SET_LED_PIN -> waitForBytes
    [] c = CMD_INIT_STRIP -> cmdInitStrip
    [] c = CMD_SET_PIXEL_RGBW -> InitThenWait
    [] c = CMD_SET_PIXEL_RGB -> InitThenWait
    [] c = CMD_SET_PIXEL_W -> InitThenWait
    [] c = CMD_SET_RANGE_RGBW -> InitThenWait
    [] c = CMD_SET_ALL_RGBW -> InitThenWait
    [] c = CMD_CLEAR_ALL -> cmdClearAll
    [] c = CMD_BUFFER_START -> cmdBufferStart
    [] c = CMD_BUFFER_PIXEL -> InitThenWait
    [] c = CMD_BUFFER_END -> cmdBufferEnd
    [] c = CMD_STREAM_START -> InitThenWait
    [] c = CMD_STREAM_DATA -> StreamDataEntry
    [] c = CMD_STREAM_END -> cmdStreamEnd
    [] c = CMD_BULK_UPDATE -> InitThenWait
    [] c = CMD_SYNC -> cmdSync
    [] c = CMD_FILL_GRADIENT -> InitThenWait
    [] c = CMD_BRIGHTNESS -> waitForBytes
    [] OTHER -> cmdUnknown

\* the handler whose payload waitForBytes has found available
handlerBody(c) ==
  CASE c = CMD_SET_LED_COUNT -> cmdSetLedCount
    [] c = CMD_SET_LED_PIN -> cmdSetLedPin
    [] c = CMD_SET_PIXEL_RGBW -> cmdSetPixelRGBW
    [] c = CMD_SET_PIXEL_RGB -> cmdSetPixelRGB
    [] c = CMD_SET_PIXEL_W -> cmdSetPixelW
    [] c = CMD_SET_RANGE_RGBW -> cmdSetRangeRGBW
    [] c = CMD_SET_ALL_RGBW -> cmdSetAllRGBW
    [] c = CMD_BUFFER_PIXEL -> cmdBufferPixel
    [] c = CMD_STREAM_START -> cmdStreamStart
    [] c = CMD_STREAM_DATA -> cmdStreamData
    [] c = CMD_BULK_UPDATE -> cmdBulkUpdate
    [] c = CMD_FILL_GRADIENT -> cmdFillGradient
    [] c = CMD_BRIGHTNESS -> cmdSetBrightness

\* loop(): a byte is available; it is read and dispatched as a command
Loop ==
  /\ pc = "idle"
  /\ Len(rx) > 0
  /\ cmd' = Head(rx)
  /\ rx' = Tail(rx)
  /\ processCommand(Head(rx))
  /\ session' = IF Head(rx) = CMD_STREAM_DATA /\ streamMode THEN session
                ELSE IF Head(rx) = CMD_STREAM_END THEN [data |-> 0, foreign |-> FALSE]
                ELSE [session EXCEPT !.foreign = TRUE]
  /\ UNCHANGED sent

\* waitForBytes returns true: the payload is there and the handler runs
Payload ==
  /\ pc = "wait"
  /\ Len(rx) >= PayloadSize(cmd)
  /\ handlerBody(cmd)
  /\ session' = IF cmd = CMD_STREAM_START THEN [data |-> 0, foreign |-> FALSE]
                ELSE IF cmd = CMD_STREAM_DATA THEN [session EXCEPT !.data = @ + 1]
                ELSE session
  /\ UNCHANGED <<cmd, sent>>

\* the clock passes the deadline of the wait in progress
Tick ==
  /\ pc \in {"wait", "bulk"}
  /\ Len(rx) < Need
  /\ ~expired
  /\ expired' = TRUE
  /\ UNCHANGED <<ledStrip, hw, cfgVars, streamVars, pc, cmd, bulkVars, rx, tx,
                 syncs, wr, sent, session>>

\* Faulty variant, used to test the property below: the wait is abandoned without the error frame
TimeoutBug ==
  /\ pc = "wait"
  /\ Len(rx) < PayloadSize(cmd)
  /\ expired
  /\ tx' = tx
  /\ rx' = rx
  /\ NoStore /\ Return
  /\ session' = [session EXCEPT !.foreign = TRUE]
  /\ UNCHANGED <<cfgVars, streamVars, bulkVars, cmd, sent>>

\* Faulty variant, used to test the property below: the wait has no deadline and polls on
TimeoutNever ==
  /\ pc = "wait"
  /\ Len(rx) < PayloadSize(cmd)
  /\ expired
  /\ UNCHANGED vars

\* waitForBytes: too few bytes and the deadline passed
Timeout ==
  /\ pc = "wait"
  /\ Len(rx) < PayloadSize(cmd)
  /\ expired
  /\ sendError(ERR_TIMEOUT)
  /\ rx' = rx
  /\ NoStore /\ Return
  /\ session' = [session EXCEPT !.foreign = TRUE]
  /\ UNCHANGED <<cfgVars, streamVars, bulkVars, cmd, sent>>

\* Faulty variant, used to test the property below: the pixel loop is abandoned without the error frame
BulkTimeoutBug ==
  /\ pc = "bulk"
  /\ Len(rx) < 4
  /\ expired
  /\ tx' = tx
  /\ rx' = rx
  /\ NoStore /\ Return
  /\ UNCHANGED <<cfgVars, streamVars, bulkVars, cmd, sent, session>>

\* the wait of the pixel loop of cmdBulkUpdate: too few bytes and the deadline passed
BulkTimeout ==
  /\ pc = "bulk"
  /\ Len(rx) < 4
  /\ expired
  /\ sendError(ERR_TIMEOUT)
  /\ rx' = rx
  /\ NoStore /\ Return
  /\ UNCHANGED <<cfgVars, streamVars, bulkVars, cmd, sent, session>>

(* ---------------- the client ------------------------------------------- *)
ColA == <<255, 128, 64, 3>>
ColB == <<0, 10, 200, 255>>

\* big-endian 16-bit value
BE(n) == <<n \div 256, n % 256>>

PixelIdx == {0, 107}
Ranges == {<<0, 2>>, <<2, 2>>, <<2, 0>>, <<0, 107>>}

FullFrames ==
  {<<CMD_PING>>, <<CMD_GET_INFO>>, <<CMD_RESET>>, <<CMD_INIT_STRIP>>,
   <<CMD_CLEAR_ALL>>, <<CMD_BUFFER_START>>, <<CMD_BUFFER_END>>,
   <<CMD_STREAM_END>>, <<CMD_SYNC>>, <<170>>,
   <<CMD_SET_ALL_RGBW>> \o ColA, <<CMD_STREAM_DATA>> \o ColA,
   <<CMD_BRIGHTNESS, 128>>, ColB}
  \cup {<<CMD_SET_LED_COUNT>> \o BE(n) : n \in {0, 2, 108}}
  \cup {<<CMD_SET_LED_PIN, p>> : p \in {7, 20}}
  \cup {<<c>> \o BE(i) \o ColA : c \in {CMD_SET_PIXEL_RGBW, CMD_BUFFER_PIXEL}, i \in PixelIdx}
  \cup {<<CMD_SET_PIXEL_RGB>> \o BE(i) \o SubSeq(ColA, 1, 3) : i \in PixelIdx}
  \cup {<<CMD_SET_PIXEL_W>> \o BE(i) \o <<ColA[4]>> : i \in PixelIdx}
  \cup {<<CMD_SET_RANGE_RGBW>> \o BE(r[1]) \o BE(r[2]) \o ColA : r \in Ranges}
  \cup {<<CMD_FILL_GRADIENT>> \o BE(r[1]) \o BE(r[2]) \o ColA \o ColB : r \in Ranges}
  \cup {<<CMD_STREAM_START>> \o BE(n) : n \in {2}}
  \cup {<<CMD_BULK_UPDATE>> \o BE(n) : n \in {0, 1, 108}}

\* a frame cut short: its last byte never arrives
CutFrames ==
  {SubSeq(f, 1, Len(f) - 1) : f \in
     {<<CMD_SET_LED_COUNT, 0, 2>>, <<CMD_SET_LED_PIN, 7>>,
      <<CMD_SET_PIXEL_RGBW>> \o BE(0) \o ColA,
      <<CMD_SET_PIXEL_RGB>> \o BE(0) \o SubSeq(ColA, 1, 3),
      <<CMD_SET_PIXEL_W>> \o BE(0) \o <<ColA[4]>>,
      <<CMD_SET_RANGE_RGBW>> \o BE(0) \o BE(2) \o ColA,
      <<CMD_SET_ALL_RGBW>> \o ColA,
      <<CMD_BUFFER_PIXEL>> \o BE(0) \o ColA,
      <<CMD_STREAM_START>> \o BE(2),
      <<CMD_STREAM_DATA>> \o ColA,
      <<CMD_BULK_UPDATE>> \o BE(1),
      <<CMD_FILL_GRADIENT>> \o BE(0) \o BE(2) \o ColA \o ColB,
      <<CMD_BRIGHTNESS, 128>>}}

Frames == FullFrames \cup CutFrames

\* a short store, then a target count above it; a stream and a bulk transfer
SeqFrames ==
  {<<CMD_SET_LED_COUNT, 0, 2, CMD_INIT_STRIP, CMD_SET_LED_COUNT, 0, 3>>,
   <<CMD_STREAM_START, 0, 3>>, <<CMD_STREAM_DATA>> \o ColA,
   <<CMD_STREAM_DATA>> \o ColB, <<CMD_STREAM_DATA, 255>>, <<CMD_STREAM_END>>,
   <<CMD_BULK_UPDATE, 0, 3>>, ColA, ColB, <<CMD_BRIGHTNESS, 128>>}

\* colours, brightness values, counts and pins at the edges of their ranges
Black == <<0, 0, 0, 0>>
White == <<255, 255, 255, 255>>
NumCols == {<<0, 127, 255, 1>>, ColA}

NumFrames ==
  {<<CMD_BRIGHTNESS, b>> : b \in {0, 1, 128, 254, 255}}
  \cup {<<CMD_BRIGHTNESS>>}
  \cup {<<CMD_SET_LED_COUNT>> \o BE(n) : n \in {0, 1, 1000, 1001}}
  \cup {<<CMD_SET_LED_PIN, p>> : p \in {0, 19, 20, 255}}
  \cup {<<CMD_SET_PIXEL_RGBW>> \o BE(0) \o c : c \in NumCols}
  \cup {<<CMD_SET_PIXEL_RGB>> \o BE(1) \o SubSeq(c, 1, 3) : c \in NumCols}
  \cup {<<CMD_SET_PIXEL_W>> \o BE(2) \o <<c[3]>> : c \in NumCols}
  \cup {<<CMD_SET_RANGE_RGBW>> \o BE(0) \o BE(2) \o c : c \in NumCols}
  \cup {<<CMD_SET_ALL_RGBW>> \o c : c \in NumCols}
  \cup {<<CMD_BUFFER_PIXEL>> \o BE(3) \o c : c \in NumCols}
  \cup {<<CMD_STREAM_START>> \o BE(2)}
  \cup {<<CMD_STREAM_DATA>> \o c : c \in NumCols}
  \cup {<<CMD_BULK_UPDATE>> \o BE(1)}
  \cup NumCols
  \cup {<<CMD_FILL_GRADIENT>> \o BE(0) \o BE(9) \o Black \o White,
        <<CMD_FILL_GRADIENT>> \o BE(0) \o BE(9) \o ColA \o ColB,
        <<CMD_FILL_GRADIENT>> \o BE(2) \o BE(2) \o ColA \o ColB,
        <<CMD_FILL_GRADIENT>> \o BE(5) \o BE(8) \o White \o ColB}

\* bulk transfers, whole and broken off, on the default store and on a store
\* of one pixel under a target count of 3
BulkFrames ==
  {<<CMD_SET_LED_COUNT, 0, 1, CMD_INIT_STRIP, CMD_SET_LED_COUNT, 0, 3>>,
   <<CMD_BULK_UPDATE, 0, 3>>, <<CMD_BULK_UPDATE, 0, 2>>, <<CMD_BULK_UPDATE>>,
   ColA, ColB, <<CMD_BRIGHTNESS, 128>>, <<CMD_SYNC>>}

\* the client writes a chunk when the engine has read all that arrived
ClientSend(F, max) ==
  /\ sent < max
  /\ Len(rx) < Need
  /\ \E f \in F : rx' = rx \o f
  /\ sent' = sent + 1
  /\ UNCHANGED <<ledStrip, hw, cfgVars, streamVars, pc, cmd, bulkVars, expired,
                 tx, syncs, wr, session>>

Engine == Loop \/ Payload \/ BulkPixel \/ Tick \/ Timeout \/ BulkTimeout

Next == ClientSend(Frames, MaxCmds) \/ Engine

Spec == Init /\ [][Next]_vars

NextSeq == ClientSend(SeqFrames, MaxSeqCmds) \/ Engine

SpecSeq == Init /\ [][NextSeq]_vars

NextNum == ClientSend(NumFrames, MaxNumCmds) \/ Engine

SpecNum == Init /\ [][NextNum]_vars

NextBulk == ClientSend(BulkFrames, MaxBulkCmds) \/ Engine

SpecBulk == Init /\ [][NextBulk]_vars

NextLive == ClientSend(Frames, MaxLiveCmds) \/ Engine

\* the processor keeps running loop() and the polling loops, and the clock
\* keeps advancing; the client is free to stop sending at any time
SpecLive ==
  /\ Init /\ [][NextLive]_vars
  /\ WF_vars(Loop) /\ WF_vars(Payload) /\ WF_vars(BulkPixel)
  /\ WF_vars(Tick) /\ WF_vars(Timeout) /\ WF_vars(BulkTimeout)

TypeOK ==
  /\ pc \in {"idle", "wait", "bulk"}
  /\ ledCount \in 1..MAX_LED_COUNT
  /\ ledPin \in 0..(PIN_LIMIT - 1)
  /\ globalBrightness \in 0..255
  /\ DOMAIN ledStrip.pixels = 0..(ledStrip.count - 1)
  /\ \A i \in DOMAIN ledStrip.pixels : \A k \in 1..4 : ledStrip.pixels[i][k] \in 0..255


(* ======================= properties ==================================== *)
\* the handler of command c is about to run on a complete payload
Completes(c) == pc = "wait" /\ cmd = c /\ Len(rx) >= PayloadSize(c)

\* loop() is about to dispatch command byte c
Dispatches(c) == pc = "idle" /\ Len(rx) > 0 /\ Head(rx) = c

\* floor(v * b / 256) under the brightness in force, the identity at 255
Dim(v) == IF globalBrightness = 255 THEN v ELSE (v * globalBrightness) \div 256
DimColor(c) == <<Dim(c[1]), Dim(c[2]), Dim(c[3]), Dim(c[4])>>

\* the step answers OUT_OF_RANGE and leaves the store and the hardware alone
Rejected ==
  /\ tx' = <<RESP_ERROR, ERR_OUT_OF_RANGE>>
  /\ ledStrip' = ledStrip
  /\ hw' = hw
  /\ syncs' = 0
  /\ wr' = {}
  /\ pc' = "idle"

\* the step writes colour c at index i and nowhere else
WritesOnly(i, c) ==
  /\ DOMAIN ledStrip'.pixels = DOMAIN ledStrip.pixels
  /\ i \in DOMAIN ledStrip'.pixels
  /\ ledStrip'.pixels[i] = c
  /\ \A j \in DOMAIN ledStrip.pixels : j # i => ledStrip'.pixels[j] = ledStrip.pixels[j]

\* C2: no command writes a pixel at an index >= ledCount, and an indexed write
\* (set_pixel rgbw/rgb/w, buffer_pixel, set_range, fill_gradient) whose index,
\* start or end is >= ledCount, or whose start > end, answers OUT_OF_RANGE,
\* changes no pixel and commits nothing.
C2_WritesBelowLedCount ==
  [][/\ \A i \in wr' : i < ledCount'
     /\ \A c \in {CMD_SET_PIXEL_RGBW, CMD_SET_PIXEL_RGB, CMD_SET_PIXEL_W, CMD_BUFFER_PIXEL} :
          (Completes(c) /\ U16(rx[1], rx[2]) >= ledCount) => Rejected
     /\ \A c \in {CMD_SET_RANGE_RGBW, CMD_FILL_GRADIENT} :
          (Completes(c) /\ (\/ U16(rx[1], rx[2]) >= ledCount
                            \/ U16(rx[3], rx[4]) >= ledCount
                            \/ U16(rx[1], rx[2]) > U16(rx[3], rx[4]))) => Rejected
    ]_vars

\* a range whose end is beyond a lowered LED count has just been rejected
\* while the store holds a lit pixel
C2_Witness ==
  /\ pc = "idle"
  /\ cmd = CMD_SET_RANGE_RGBW
  /\ tx = <<RESP_ERROR, ERR_OUT_OF_RANGE>>
  /\ ledCount = 2
  /\ ledStrip.pixels[0] # OFF

\* the colour a set_pixel variant composes from its payload
WireColor(c) ==
  CASE c = CMD_SET_PIXEL_RGBW -> <<rx[3], rx[4], rx[5], rx[6]>>
    [] c = CMD_SET_PIXEL_RGB -> <<rx[3], rx[4], rx[5], 0>>
    [] c = CMD_SET_PIXEL_W -> <<0, 0, 0, rx[3]>>

\* C3: a set_pixel (rgbw, rgb, w) with index < ledCount stores the
\* brightness-scaled colour (missing channels 0) at that index, changes no
\* other index, commits and answers OK; a sync leaves the store unchanged.
C3_SetPixelStores ==
  [][/\ \A c \in {CMD_SET_PIXEL_RGBW, CMD_SET_PIXEL_RGB, CMD_SET_PIXEL_W} :
          (Completes(c) /\ U16(rx[1], rx[2]) < ledCount) =>
             /\ WritesOnly(U16(rx[1], rx[2]), DimColor(WireColor(c)))
             /\ hw' = ledStrip'.pixels
             /\ syncs' = 1
             /\ tx' = <<RESP_OK>>
     /\ Dispatches(CMD_SYNC) => ledStrip' = ledStrip
    ]_vars

\* C4: in a stream started with n <= ledCount and not interrupted by another
\* command, the k-th stream_data (k <= n) writes its scaled colour at index
\* k-1 and nowhere else and advances the cursor; each further one answers
\* OUT_OF_RANGE, writes nothing and leaves the cursor.
C4_StreamInOrder ==
  [][/\ Completes(CMD_STREAM_START) =>
          streamIndex' = 0 /\ streamCount' = U16(rx[1], rx[2]) /\ streamMode'
     /\ (Completes(CMD_STREAM_DATA) /\ ~session.foreign /\ streamCount <= ledCount) =>
          IF session.data < streamCount
          THEN /\ WritesOnly(session.data, DimColor(<<rx[1], rx[2], rx[3], rx[4]>>))
               /\ streamIndex' = session.data + 1
               /\ hw' = hw /\ syncs' = 0
               /\ tx' = <<RESP_OK>>
          ELSE /\ Rejected
               /\ streamIndex' = streamIndex
    ]_vars

\* C5: a stream_data outside a stream session is answered with the
\* NOT_INITIALIZED error frame, writes nothing and leaves the cursor; the
\* session starts only with a completed stream_start and ends only with
\* stream_end, which commits once and resets mode, cursor and count.
C5_StreamDataNeedsSession ==
  [][/\ (Dispatches(CMD_STREAM_DATA) /\ ~streamMode) =>
          /\ tx' = <<RESP_ERROR, ERR_NOT_INITIALIZED>>
          /\ pc' = "idle"
          /\ ledStrip' = ledStrip /\ hw' = hw /\ wr' = {} /\ syncs' = 0
          /\ UNCHANGED streamVars
     /\ (Dispatches(CMD_STREAM_DATA) /\ streamMode) => pc' = "wait"
     /\ Dispatches(CMD_STREAM_END) =>
          /\ syncs' = 1 /\ hw' = ledStrip.pixels /\ ledStrip' = ledStrip
          /\ ~streamMode' /\ streamIndex' = 0 /\ streamCount' = 0
          /\ tx' = <<RESP_OK>> /\ pc' = "idle"
     /\ (~streamMode /\ streamMode') => Completes(CMD_STREAM_START)
     /\ (streamMode /\ ~streamMode') => Dispatches(CMD_STREAM_END)
    ]_vars

\* a stream_data sent outside a session has just been refused; its four
\* payload bytes are still in the receive buffer
C5_Witness ==
  /\ pc = "idle"
  /\ cmd = CMD_STREAM_DATA
  /\ tx = <<RESP_ERROR, ERR_NOT_INITIALIZED>>
  /\ ~streamMode
  /\ rx = ColA

\* C6: a bulk_update whose count exceeds the capacity of the store answers
\* OUT_OF_RANGE at once: that frame only, the 2 count bytes consumed and no
\* more, no pixel written, no commit.
C6_BulkBeyondCapacity ==
  [][(Completes(CMD_BULK_UPDATE) /\ U16(rx[1], rx[2]) > ledStrip.count) =>
        /\ Rejected
        /\ rx' = Drop(2)
    ]_vars

\* C7: a bulk_update with count <= ledCount answers an early OK, then writes
\* each arriving quadruple, scaled, at the next index from 0 and nowhere else,
\* commits once after the last one and answers the final OK; nothing is
\* committed before.
C7_BulkInOrder ==
  [][/\ (Completes(CMD_BULK_UPDATE) /\ U16(rx[1], rx[2]) <= ledCount /\ U16(rx[1], rx[2]) > 0) =>
          /\ tx' = <<RESP_OK>> /\ pc' = "bulk" /\ bulkI' = 0
          /\ ledStrip' = ledStrip /\ hw' = hw /\ syncs' = 0
     /\ (pc = "bulk" /\ Len(rx) >= 4) =>
          /\ tx = <<RESP_OK>> /\ syncs = 0
          /\ WritesOnly(bulkI, DimColor(<<rx[1], rx[2], rx[3], rx[4]>>))
          /\ bulkI' = bulkI + 1
          /\ IF bulkI + 1 = bulkCount
             THEN tx' = <<RESP_OK, RESP_OK>> /\ syncs' = 1 /\ hw' = ledStrip'.pixels /\ pc' = "idle"
             ELSE tx' = <<RESP_OK>> /\ syncs' = 0 /\ hw' = hw /\ pc' = "bulk"
    ]_vars

\* C8: reset, from any state, leaves ledCount 107, pin 6, brightness 255, a
\* store of 107 pixels all (0,0,0,0), initialized and committed, and answers OK.
C8_ResetRestoresDefaults ==
  [][Dispatches(CMD_RESET) =>
        /\ ledCount' = 107 /\ ledPin' = 6 /\ globalBrightness' = 255
        /\ stripInitialized'
        /\ ledStrip'.count = 107
        /\ ledStrip'.pixels = [i \in 0..106 |-> <<0, 0, 0, 0>>]
        /\ hw' = ledStrip'.pixels /\ syncs' = 1
        /\ tx' = <<RESP_OK>> /\ pc' = "idle"
    ]_vars

\* reset has just run in a state reached through a stream_start (reset leaves
\* the session open) with the defaults back in place
C8_Witness ==
  /\ pc = "idle"
  /\ cmd = CMD_RESET
  /\ tx = <<RESP_OK>>
  /\ streamMode
  /\ ledCount = 107 /\ globalBrightness = 255

FixedPayload ==
  {CMD_SET_LED_COUNT, CMD_SET_LED_PIN, CMD_SET_PIXEL_RGBW, CMD_SET_PIXEL_RGB,
   CMD_SET_PIXEL_W, CMD_SET_RANGE_RGBW, CMD_SET_ALL_RGBW, CMD_BUFFER_PIXEL,
   CMD_STREAM_START, CMD_STREAM_DATA, CMD_FILL_GRADIENT, CMD_BRIGHTNESS}

\* a fixed-payload command waits with too few bytes in the buffer
ShortWait == pc = "wait" /\ cmd \in FixedPayload /\ Len(rx) < PayloadSize(cmd)

\* one TIMEOUT frame, no engine state changed, nothing committed, back in loop()
TimedOut ==
  /\ tx' = <<RESP_ERROR, ERR_TIMEOUT>>
  /\ pc' = "idle"
  /\ ledStrip' = ledStrip /\ hw' = hw /\ syncs' = 0 /\ wr' = {}
  /\ UNCHANGED <<cfgVars, streamVars>>

\* C9: a fixed-payload command whose payload is short when the deadline has
\* passed, and to which no further byte arrives, emits exactly one TIMEOUT
\* error frame, changes no engine state, commits nothing and is back in
\* loop(); a short wait is left in no other way and not before the deadline.
C9_TimeoutLeavesState ==
  [][/\ (ShortWait /\ expired /\ rx' = rx) => TimedOut
     /\ (ShortWait /\ pc' # "wait") => (expired /\ TimedOut)
    ]_vars

\* fill_gradient has just timed out with 11 of its 12 payload bytes arrived
C9_Witness ==
  /\ pc = "idle"
  /\ cmd = CMD_FILL_GRADIENT
  /\ tx = <<RESP_ERROR, ERR_TIMEOUT>>
  /\ Len(rx) = 11

\* C10: when a command times out, the payload bytes that had arrived are
\* discarded: none is left in the receive buffer to be dispatched as a
\* command or read as payload afterwards.
C10_TimeoutDiscardsPayload ==
  [][(pc = "wait" /\ Len(rx) < PayloadSize(cmd) /\ pc' = "idle") => rx' = <<>>]_vars


\* the command bytes processCommand has a case for
Commands ==
  {CMD_PING, CMD_GET_INFO, CMD_RESET, CMD_SET_LED_COUNT, CMD_SET_LED_PIN,
   CMD_INIT_STRIP, CMD_SET_PIXEL_RGBW, CMD_SET_PIXEL_RGB, CMD_SET_PIXEL_W,
   CMD_SET_RANGE_RGBW, CMD_SET_ALL_RGBW, CMD_CLEAR_ALL, CMD_BUFFER_START,
   CMD_BUFFER_PIXEL, CMD_BUFFER_END, CMD_STREAM_START, CMD_STREAM_DATA,
   CMD_STREAM_END, CMD_BULK_UPDATE, CMD_SYNC, CMD_FILL_GRADIENT, CMD_BRIGHTNESS}

ErrorCodes ==
  {ERR_BUFFER_OVERFLOW, ERR_INVALID_PARAM, ERR_NOT_INITIALIZED, ERR_OUT_OF_RANGE,
   ERR_TIMEOUT}

\* t is one 2-byte error frame
ErrorFrame(t) == Len(t) = 2 /\ t[1] = RESP_ERROR /\ t[2] \in ErrorCodes

\* s is a prefix of t
IsPrefix(s, t) == Len(s) <= Len(t) /\ SubSeq(t, 1, Len(s)) = s

\* t is all that command byte c may have answered when the engine is back in loop()
Terminal(c, t) ==
  IF c = CMD_PING THEN t = <<RESP_PONG>>
  ELSE IF c = CMD_GET_INFO THEN Len(t) = 7 /\ t[1] = RESP_INFO
  ELSE IF c \notin Commands THEN t = <<RESP_UNKNOWN_CMD>>
  ELSE IF c = CMD_BULK_UPDATE
  THEN \/ ErrorFrame(t)
       \/ t = <<RESP_OK, RESP_OK>>
       \/ t = <<RESP_OK, RESP_ERROR, ERR_TIMEOUT>>
  ELSE t = <<RESP_OK>> \/ ErrorFrame(t)

\* C11: every command byte dispatched is answered by exactly one terminal
\* frame before the next command byte is read: PONG for ping, the 7-byte INFO
\* frame for get_info, the unknown-command byte for a byte that is no command,
\* otherwise one OK or one 2-byte error frame; bulk_update alone sends an
\* early OK first, then exactly one of OK and the TIMEOUT error. Nothing is
\* sent while a payload is awaited, and what a command has sent stays in
\* front of what it sends next, so the answers leave in dispatch order.
C11_OneTerminalResponse ==
  [][(sent' = sent) =>
        /\ pc' = "idle" => Terminal(cmd', tx')
        /\ pc' = "wait" => tx' = <<>>
        /\ pc' = "bulk" => (cmd' = CMD_BULK_UPDATE /\ tx' = <<RESP_OK>>)
        /\ pc # "idle" => (cmd' = cmd /\ IsPrefix(tx, tx'))
    ]_vars

\* a bulk transfer has been given its early OK and then timed out
C11_Witness ==
  /\ pc = "idle"
  /\ cmd = CMD_BULK_UPDATE
  /\ tx = <<RESP_OK, RESP_ERROR, ERR_TIMEOUT>>


\* x is what some wire byte becomes under the brightness in force: if any
\* byte does, the least v with v * brightness >= 256 * x does
Dimmed(x) ==
  IF globalBrightness = 0 THEN x = 0
  ELSE LET v == (256 * x + globalBrightness - 1) \div globalBrightness
       IN x \in 0..255 /\ ((v <= 255 /\ Dim(v) = x) \/ Dim(x) = x)

\* C12: set_brightness replaces the global brightness with its payload byte
\* whatever it is, changes no stored pixel and commits nothing; brightness
\* changes in no other way but reset. A stored pixel changes only in a step
\* that writes it, and then to a colour scaled by the brightness in force at
\* that write, so a later set_brightness never reaches back to it.
C12_BrightnessOnlyLaterWrites ==
  [][/\ Completes(CMD_BRIGHTNESS) =>
          /\ globalBrightness' = rx[1]
          /\ ledStrip' = ledStrip /\ hw' = hw /\ syncs' = 0 /\ wr' = {}
          /\ tx' = <<RESP_OK>> /\ pc' = "idle"
     /\ globalBrightness' # globalBrightness =>
          (Completes(CMD_BRIGHTNESS) \/ Dispatches(CMD_RESET))
     /\ \A i \in DOMAIN ledStrip'.pixels :
          (i \notin DOMAIN ledStrip.pixels \/ ledStrip'.pixels[i] # ledStrip.pixels[i]) =>
             /\ i \in wr'
             /\ \A k \in 1..4 : Dimmed(ledStrip'.pixels[i][k])
    ]_vars

\* pixel 0 was written at full brightness, the brightness was then set to
\* 128, and pixel 2 was written after that: pixel 0 keeps its full colour,
\* pixel 2 holds the halved one
C12_Witness ==
  /\ pc = "idle"
  /\ globalBrightness = 128
  /\ ledStrip.pixels[0] = ColA
  /\ ledStrip.pixels[2] = <<127, 64, 32, 1>>


\* four payload bytes from position n on, as a colour
Wire4(n) == <<rx[n], rx[n + 1], rx[n + 2], rx[n + 3]>>

\* division truncating toward zero
TruncDiv(n, d) == IF n >= 0 THEN n \div d ELSE -((-n) \div d)

\* a + (b - a) * k / steps, and a itself when there is one pixel only
Ramp(a, b, k, steps) == IF steps = 0 THEN a ELSE a + TruncDiv((b - a) * k, steps)

RampColor(A, B, k, steps) ==
  <<Ramp(A[1], B[1], k, steps), Ramp(A[2], B[2], k, steps),
    Ramp(A[3], B[3], k, steps), Ramp(A[4], B[4], k, steps)>>

\* the pixel store, after the step, holds colour c scaled once at index i
HoldsDimmed(i, c) == ledStrip'.pixels[i] = DimColor(c)

\* C13: in every path that writes a colour from the wire, each channel v
\* that is stored under brightness b is scale(v, b) applied exactly once,
\* scale(v, 255) = v and scale(v, b) = floor(v * b / 256) for b < 255; in
\* fill_gradient it is the interpolated value that is scaled.
C13_ScaledOnce ==
  [][/\ \A c \in {CMD_SET_PIXEL_RGBW, CMD_SET_PIXEL_RGB, CMD_SET_PIXEL_W} :
          (Completes(c) /\ U16(rx[1], rx[2]) < ledCount
             /\ U16(rx[1], rx[2]) \in DOMAIN ledStrip.pixels) =>
             HoldsDimmed(U16(rx[1], rx[2]), WireColor(c))
     /\ (Completes(CMD_BUFFER_PIXEL) /\ U16(rx[1], rx[2]) < ledCount
           /\ U16(rx[1], rx[2]) \in DOMAIN ledStrip.pixels) =>
          HoldsDimmed(U16(rx[1], rx[2]), Wire4(3))
     /\ (Completes(CMD_SET_RANGE_RGBW) /\ U16(rx[1], rx[2]) <= U16(rx[3], rx[4])
           /\ U16(rx[3], rx[4]) < ledCount) =>
          \A i \in (U16(rx[1], rx[2])..U16(rx[3], rx[4])) \cap DOMAIN ledStrip.pixels :
             HoldsDimmed(i, Wire4(5))
     /\ Completes(CMD_SET_ALL_RGBW) =>
          \A i \in (0..(ledCount - 1)) \cap DOMAIN ledStrip.pixels :
             HoldsDimmed(i, Wire4(1))
     /\ (Completes(CMD_STREAM_DATA) /\ streamIndex < ledCount /\ streamIndex < streamCount
           /\ streamIndex \in DOMAIN ledStrip.pixels) =>
          HoldsDimmed(streamIndex, Wire4(1))
     /\ (pc = "bulk" /\ Len(rx) >= 4 /\ bulkI \in DOMAIN ledStrip.pixels) =>
          HoldsDimmed(bulkI, Wire4(1))
     /\ (Completes(CMD_FILL_GRADIENT) /\ U16(rx[1], rx[2]) <= U16(rx[3], rx[4])
           /\ U16(rx[3], rx[4]) < ledCount) =>
          \A i \in (U16(rx[1], rx[2])..U16(rx[3], rx[4])) \cap DOMAIN ledStrip.pixels :
             HoldsDimmed(i, RampColor(Wire4(5), Wire4(9), i - U16(rx[1], rx[2]),
                                      U16(rx[3], rx[4]) - U16(rx[1], rx[2])))
    ]_vars

\* a black-to-white gradient over 0..9 was written under brightness 128:
\* its last pixel holds 255 scaled once, 127, and its fifth the scaled 113
C13_Witness ==
  /\ pc = "idle"
  /\ cmd = CMD_FILL_GRADIENT
  /\ tx = <<RESP_OK>>
  /\ globalBrightness = 128
  /\ ledStrip.pixels[9] = <<127, 127, 127, 127>>
  /\ ledStrip.pixels[4] = <<56, 56, 56, 56>>


\* C14: what the hardware shows changes only in a step that commits, and then
\* to the content of the store. buffer_start, buffer_pixel and stream_data
\* never commit; an accepted buffer_pixel or stream_data is in the store at
\* once while the hardware keeps what the last commit gave it; buffer_end and
\* stream_end change no pixel and commit exactly once, after which the
\* hardware shows the store.
C14_CommitOnlyAtEnd ==
  [][/\ hw' # hw => (syncs' >= 1 /\ hw' = ledStrip'.pixels)
     /\ Dispatches(CMD_BUFFER_START) => (hw' = hw /\ ledStrip' = ledStrip /\ syncs' = 0)
     /\ (Completes(CMD_BUFFER_PIXEL) \/ Completes(CMD_STREAM_DATA)) =>
          (hw' = hw /\ syncs' = 0)
     /\ (Completes(CMD_BUFFER_PIXEL) /\ tx' = <<RESP_OK>>) =>
          WritesOnly(U16(rx[1], rx[2]), DimColor(Wire4(3)))
     /\ (Completes(CMD_STREAM_DATA) /\ tx' = <<RESP_OK>>) =>
          WritesOnly(streamIndex, DimColor(Wire4(1)))
     /\ (Dispatches(CMD_BUFFER_END) \/ Dispatches(CMD_STREAM_END)) =>
          (ledStrip' = ledStrip /\ syncs' = 1 /\ hw' = ledStrip.pixels)
    ]_vars


\* the step leaves the store, the hardware and the commit count alone
StoreUntouched == ledStrip' = ledStrip /\ hw' = hw /\ syncs' = 0 /\ wr' = {}

\* C15: set_led_count accepts exactly 1..1000 and set_led_pin exactly 0..19;
\* an accepted value becomes the target count / pin and is answered OK with
\* the store untouched (no pixel changed, no reallocation, no commit), a
\* rejected one is answered INVALID_PARAM and leaves the target. The count is
\* in 1..1000 and the pin below 20 in every reachable state.
C15_CountAndPinValidated ==
  [][/\ Completes(CMD_SET_LED_COUNT) =>
          /\ StoreUntouched /\ ledPin' = ledPin /\ pc' = "idle"
          /\ IF U16(rx[1], rx[2]) \in 1..1000
             THEN ledCount' = U16(rx[1], rx[2]) /\ tx' = <<RESP_OK>>
             ELSE ledCount' = ledCount /\ tx' = <<RESP_ERROR, ERR_INVALID_PARAM>>
     /\ Completes(CMD_SET_LED_PIN) =>
          /\ StoreUntouched /\ ledCount' = ledCount /\ pc' = "idle"
          /\ IF rx[1] \in 0..19
             THEN ledPin' = rx[1] /\ tx' = <<RESP_OK>>
             ELSE ledPin' = ledPin /\ tx' = <<RESP_ERROR, ERR_INVALID_PARAM>>
     /\ ledCount \in 1..1000 /\ ledCount' \in 1..1000
     /\ ledPin \in 0..19 /\ ledPin' \in 0..19
    ]_vars

\* the count 1001 has just been rejected after 1000 and pin 19 were accepted;
\* the store still has the 107 pixels and the pin it was created with
C15_Witness ==
  /\ pc = "idle"
  /\ cmd = CMD_SET_LED_COUNT
  /\ tx = <<RESP_ERROR, ERR_INVALID_PARAM>>
  /\ ledCount = 1000
  /\ ledPin = 19
  /\ ledStrip.count = 107 /\ ledStrip.pin = 6


\* C16: after a set_all that answers OK every pixel of the store, at every
\* index it was created with, is the brightness-scaled colour, and after a
\* clear_all that answers OK every pixel of the store is (0,0,0,0).
C16_FillsEntireStore ==
  [][/\ (Completes(CMD_SET_ALL_RGBW) /\ tx' = <<RESP_OK>>) =>
          \A i \in DOMAIN ledStrip'.pixels : ledStrip'.pixels[i] = DimColor(Wire4(1))
     /\ (Dispatches(CMD_CLEAR_ALL) /\ tx' = <<RESP_OK>>) =>
          \A i \in DOMAIN ledStrip'.pixels : ledStrip'.pixels[i] = <<0, 0, 0, 0>>
    ]_vars


\* a[k] <= b[k] on every channel
ChannelwiseLeq(a, b) == \A k \in 1..4 : a[k] <= b[k]

\* C17: a fill_gradient(start, end, A, B) with start <= end < ledCount answers
\* OK and leaves at each index i of start..end the scaled value of
\* A + (B - A) * (i - start) / (end - start), division truncating, and
\* touches no index outside start..end; with start = end the one pixel is A
\* scaled whatever B is; at full brightness the pixel at start is A, the one
\* at end is B, and if A <= B on every channel the ramp never decreases.
C17_GradientRamp ==
  [][(Completes(CMD_FILL_GRADIENT) /\ U16(rx[1], rx[2]) <= U16(rx[3], rx[4])
        /\ U16(rx[3], rx[4]) < ledCount) =>
        LET start == U16(rx[1], rx[2])
            end == U16(rx[3], rx[4])
            A == Wire4(5)
            B == Wire4(9)
        IN /\ tx' = <<RESP_OK>>
           /\ DOMAIN ledStrip'.pixels = DOMAIN ledStrip.pixels
           /\ \A i \in start..end :
                /\ i \in DOMAIN ledStrip'.pixels
                /\ ledStrip'.pixels[i] = DimColor(RampColor(A, B, i - start, end - start))
           /\ \A i \in DOMAIN ledStrip.pixels \ (start..end) :
                ledStrip'.pixels[i] = ledStrip.pixels[i]
           /\ wr' \subseteq start..end
           /\ start = end => ledStrip'.pixels[start] = DimColor(A)
           /\ globalBrightness = 255 =>
                /\ ledStrip'.pixels[start] = A
                /\ start < end => ledStrip'.pixels[end] = B
                /\ ChannelwiseLeq(A, B) =>
                     \A i \in start..(end - 1) :
                        ChannelwiseLeq(ledStrip'.pixels[i], ledStrip'.pixels[i + 1])
    ]_vars


\* C18: a byte that is no command, read as a command byte, is answered with
\* the single byte 0xFF and nothing else, no further byte is taken from the
\* receive buffer, and the store, the hardware, count, pin, brightness,
\* initialized flag and stream session are as before.
C18_UnknownCommand ==
  [][(pc = "idle" /\ Len(rx) > 0 /\ Head(rx) \notin Commands) =>
        /\ tx' = <<255>>
        /\ rx' = Tail(rx)
        /\ pc' = "idle"
        /\ StoreUntouched
        /\ UNCHANGED <<ledCount, ledPin, globalBrightness, stripInitialized,
                       cmdBufferPos, streamMode, streamIndex, streamCount>>
    ]_vars

\* the byte 0xAA has just been answered inside a stream session whose first
\* pixel is written
C18_Witness ==
  /\ pc = "idle"
  /\ cmd = 170
  /\ tx = <<255>>
  /\ streamMode /\ streamIndex = 1
  /\ ledStrip.pixels[0] = ColA


\* the command an engine step works on: the byte loop() reads in this step,
\* or the one whose handler is under way
CurrentCmd == IF pc = "idle" THEN cmd' ELSE cmd

StreamCmds == {CMD_STREAM_START, CMD_STREAM_DATA, CMD_STREAM_END}

\* C19: while a stream session is open, a command that is none of
\* stream_start, stream_data, stream_end leaves the session as it is (mode,
\* cursor and expected count unchanged) and is processed as at any other
\* time: it ends with its one terminal answer, and reset and init_strip
\* still rebuild the store, zeroed and committed.
C19_StreamSurvivesOtherCommands ==
  [][(streamMode /\ sent' = sent /\ CurrentCmd \notin StreamCmds) =>
        /\ UNCHANGED <<streamMode, streamIndex, streamCount>>
        /\ pc' = "idle" => Terminal(cmd', tx')
        /\ (pc = "idle" /\ cmd' \in {CMD_RESET, CMD_INIT_STRIP}) =>
             /\ ledStrip'.count = ledCount'
             /\ \A i \in DOMAIN ledStrip'.pixels : ledStrip'.pixels[i] = <<0, 0, 0, 0>>
             /\ hw' = ledStrip'.pixels
             /\ tx' = <<RESP_OK>>
    ]_vars

\* init_strip has just run inside a stream session that had written its
\* first pixel: the store is zeroed, the session is open with its cursor at 1
C19_Witness ==
  /\ pc = "idle"
  /\ cmd = CMD_INIT_STRIP
  /\ tx = <<RESP_OK>>
  /\ streamMode /\ streamIndex = 1 /\ streamCount = 2
  /\ ledStrip.pixels[0] = <<0, 0, 0, 0>>


\* C20: every dispatched command terminates and no outcome blocks the
\* engine: whenever a handler is under way or bytes are waiting in the
\* receive buffer, the engine is eventually back in loop() with every byte
\* that arrived consumed, whether the payload came or not.
C20_AlwaysBackToIdle ==
  (pc # "idle" \/ Len(rx) > 0) ~> (pc = "idle" /\ Len(rx) = 0)

\* set_led_pin, sent without its payload byte, has timed out and the engine
\* is back in loop() with an empty receive buffer
C20_Witness ==
  /\ pc = "idle"
  /\ cmd = CMD_SET_LED_PIN
  /\ tx = <<RESP_ERROR, ERR_TIMEOUT>>
  /\ rx = <<>>
  /\ ~expired


\* C21: in bulk_update each consumed quadruple renews the deadline, touches
\* no index but its own and commits nothing before the last; the transfer is
\* broken off only when the deadline has passed with fewer than 4 bytes
\* there, and then with the TIMEOUT frame after the early OK and no final OK,
\* no commit, the hardware as before, the store as the consumed quadruples
\* left it, and the first k pixels, k the number consumed, written in it.
C21_BulkDeadlinePerPixel ==
  [][/\ (pc = "bulk" /\ Len(rx) >= 4 /\ bulkI + 1 < bulkCount) =>
          /\ pc' = "bulk" /\ ~expired'
          /\ bulkI' = bulkI + 1
          /\ tx' = <<RESP_OK>> /\ hw' = hw /\ syncs' = 0
          /\ \A j \in DOMAIN ledStrip.pixels :
               j # bulkI => ledStrip'.pixels[j] = ledStrip.pixels[j]
     /\ (pc = "bulk" /\ Len(rx) >= 4 /\ bulkI \in DOMAIN ledStrip.pixels) =>
          ledStrip'.pixels[bulkI] = DimColor(Wire4(1))
     /\ (pc = "bulk" /\ Len(rx) < 4 /\ pc' # "bulk") =>
          /\ expired
          /\ pc' = "idle"
          /\ tx' = <<RESP_OK, RESP_ERROR, ERR_TIMEOUT>>
          /\ ledStrip' = ledStrip /\ hw' = hw /\ syncs' = 0
          /\ \A i \in 0..(bulkI - 1) : i \in DOMAIN ledStrip'.pixels
     /\ (pc = "bulk" /\ Len(rx) < 4 /\ expired /\ sent' = sent) => pc' = "idle"
    ]_vars


\* C22: every index a command hands to set_rgbw, in a single write or in a
\* fill loop, is below the number of pixels the store was allocated with by
\* the most recent initialize (startup, reset, init_strip).
C22_WritesBelowCapacity ==
  [][\A i \in wr' : i < ledStrip'.count]_vars

\* C23: the stream cursor never exceeds the expected count; outside a
\* session both are 0; the cursor moves only by +1 in a stream_data that is
\* answered OK, and to 0 in a completed stream_start and in stream_end.
C23_StreamCursor ==
  [][/\ streamIndex <= streamCount /\ streamIndex' <= streamCount'
     /\ ~streamMode => (streamIndex = 0 /\ streamCount = 0)
     /\ ~streamMode' => (streamIndex' = 0 /\ streamCount' = 0)
     /\ streamIndex' # streamIndex =>
          \/ /\ Completes(CMD_STREAM_DATA)
             /\ streamIndex' = streamIndex + 1
             /\ tx' = <<RESP_OK>>
          \/ Completes(CMD_STREAM_START) /\ streamIndex' = 0
          \/ Dispatches(CMD_STREAM_END) /\ streamIndex' = 0
     /\ (Completes(CMD_STREAM_DATA) /\ tx' # <<RESP_OK>>) => streamIndex' = streamIndex
    ]_vars

\* a session of 3 has taken its three pixels and the next stream_data has
\* just been refused with the cursor at the expected count
C23_Witness ==
  /\ pc = "idle"
  /\ cmd = CMD_STREAM_DATA
  /\ tx = <<RESP_ERROR, ERR_OUT_OF_RANGE>>
  /\ streamMode /\ streamIndex = 3 /\ streamCount = 3
  /\ ledCount = 107


=============================================================================
